---- MODULE Spec2Model ----
(***************************************************************************)
(* Model of the voice capture session (src/components/VoiceRecorder.tsx)   *)
(* and of the transcript-to-product resolution behind it                   *)
(* (AddItemModal, matchProductLocally, matchProductFromTranscript).        *)
(*                                                                         *)
(* Text is a sequence of one-character strings.  Handlers are atomic: the  *)
(* browser runs engine callbacks, timer callbacks and click handlers one   *)
(* at a time.  React state (isListening, error, timeLeft) is modelled as   *)
(* updated when it is set.                                                 *)
(***************************************************************************)
EXTENDS Integers, Sequences, FiniteSets, TLC

VARIABLES
    \* ---- VoiceRecorder.tsx: React state and props
    isListening,          \* useState(false)
    error,                \* useState<string|null>(null), as a tag
    timeLeft,             \* useState(15)
    isProcessing,         \* prop of VoiceRecorder, state of AddItemModal
    \* ---- VoiceRecorder.tsx: refs
    recognitionRef,       \* TRUE when a SpeechRecognition object was created
    isSessionActiveRef,
    manuallyStoppedRef,
    accumulatedTextRef,
    currentChunkTextRef,
    timerIntervalRef,     \* TRUE while the countdown interval is armed
    maxDurationTimeoutRef,\* TRUE while the hard-deadline timeout is armed
    restartTimeoutRef,    \* TRUE while the 100 ms restart timeout is armed
    \* ---- the browser's recognition engine
    engine,               \* "idle" | "starting" | "running" | "stopping" | "failed"
    \* ---- observation of the run (not read by the handlers)
    subAttempts,          \* last cumulative text the engine reported, per sub-attempt of this session
    emitted,              \* texts passed to onTranscript in this session
    sessions,             \* number of startLogic calls that passed the guard
    startCalls,           \* recognition.start() invocations in this session
    stopRequested,        \* handleStopClick ran while this session was active
    deadlineFired,        \* the hard-deadline callback ran in this session
    fatalSeen,            \* onerror saw not-allowed / service-not-allowed in this session
    stopCalls,            \* handleStopClick calls since the last startLogic (counted up to MaxStopCalls)
    \* ---- AddItemModal: which revision of the modal and of its remote matcher
    build,                \* "A_catch" | "A_throw" | "B"
    products,             \* prop: the catalog
    \* ---- AddItemModal: React state
    step,                 \* "RECORD" | "SELECT_PRODUCT" | "CONFIRM_QTY"
    transcript,
    candidates,
    selectedProduct,
    quantity,
    searchTerm,
    usedOfflineMatch,     \* revision A only
    useAI,                \* revision B only
    apiError,             \* revision B only, as a tag
    showApiKeyInput,      \* revision B only
    \* ---- handleTranscript calls suspended at their await
    inflight,
    \* ---- observation of the run (not read by the handlers)
    escaped,              \* an exception left handleTranscript
    resolutions,          \* handleTranscript calls so far
    lastText,             \* argument of the call that completed last
    lastOnline,           \* navigator.onLine as that call read it
    lastReply,            \* what the remote end did in that call
    usedMatches,          \* the MatchResults that call handed to processMatchResult
    \* ---- one call of matchProductLocally: its arguments and its result
    scorerCall

captureVars == <<isListening, error, timeLeft, isProcessing, recognitionRef,
                 isSessionActiveRef, manuallyStoppedRef, accumulatedTextRef,
                 currentChunkTextRef, timerIntervalRef, maxDurationTimeoutRef,
                 restartTimeoutRef, engine, subAttempts, emitted, sessions,
                 startCalls, stopRequested, deadlineFired, fatalSeen,
                   stopCalls>>

resolverVars == <<build, products, step, transcript, candidates, selectedProduct,
                  quantity, searchTerm, usedOfflineMatch, useAI, apiError,
                  showApiKeyInput, inflight, escaped, resolutions, lastText,
                  lastOnline, lastReply, usedMatches>>

\* the capture session's variables without isProcessing, which the modal owns
recorderVars == <<isListening, error, timeLeft, recognitionRef,
                  isSessionActiveRef, manuallyStoppedRef, accumulatedTextRef,
                  currentChunkTextRef, timerIntervalRef, maxDurationTimeoutRef,
                  restartTimeoutRef, engine, subAttempts, emitted, sessions,
                  startCalls, stopRequested, deadlineFired, fatalSeen,
                   stopCalls>>

\* what the handlers of the recorder leave alone, and what those of the modal do
outsideRecorder == <<resolverVars, scorerCall>>

outsideModal == <<recorderVars, scorerCall>>

vars == <<captureVars, resolverVars, scorerCall>>

(***************************************************************************)
(* Bounds                                                                  *)
(***************************************************************************)
MaxSessions == 2       \* startLogic calls explored
MaxStartCalls == 3     \* recognition.start() invocations per session explored
MaxStopCalls == 2      \* handleStopClick calls per session told apart

\* The transcripts one SpeechRecognitionResult can carry.
Words == {<<"a">>, <<" ">>, <<"b", " ">>}

\* event.results of one onresult callback: one result, or two of which the
\* first is settled.
ResultLists == {<<w>> : w \in Words} \cup {<< <<"a">>, <<"b", " ">> >>}

ErrorCodes == {"no-speech", "network", "not-allowed", "service-not-allowed"}

(***************************************************************************)
(* Text helpers                                                            *)
(***************************************************************************)
IsSpace(c) == c = " "

RECURSIVE TrimStart(_)
TrimStart(s) == IF s # <<>> /\ IsSpace(Head(s)) THEN TrimStart(Tail(s)) ELSE s

RECURSIVE TrimEnd(_)
TrimEnd(s) ==
    IF s # <<>> /\ IsSpace(s[Len(s)]) THEN TrimEnd(SubSeq(s, 1, Len(s) - 1)) ELSE s

\* String.prototype.trim
Trim(s) == TrimEnd(TrimStart(s))

RECURSIVE Flatten(_)
Flatten(ss) == IF ss = <<>> THEN <<>> ELSE Head(ss) \o Flatten(Tail(ss))

(***************************************************************************)
(* Characters.  A character is a string token: a Latin letter or a digit   *)
(* is itself, a Chinese character is named by its pinyin ("gou", "tao",    *)
(* "hu", "xi" for the product names, "yi" .. "shi" and "liang" for the      *)
(* numerals, "ge" for the measure word, "xi_w" for the near-homophone of   *)
(* "xi").                                                                  *)
(***************************************************************************)
UpperLetters == {"A", "B", "C", "G", "L", "M", "S", "X"}

Digits == {"0", "1", "2", "3", "4", "5", "6", "7", "8", "9"}

\* String.prototype.toLowerCase, one character
LowerChar(c) ==
    CASE c = "A" -> "a" [] c = "B" -> "b" [] c = "C" -> "c" [] c = "G" -> "g"
      [] c = "L" -> "l" [] c = "M" -> "m" [] c = "S" -> "s" [] c = "X" -> "x"
      [] OTHER -> c

ToLowerCase(s) == [i \in 1..Len(s) |-> LowerChar(s[i])]

DigitValue(c) ==
    CASE c = "0" -> 0 [] c = "1" -> 1 [] c = "2" -> 2 [] c = "3" -> 3
      [] c = "4" -> 4 [] c = "5" -> 5 [] c = "6" -> 6 [] c = "7" -> 7
      [] c = "8" -> 8 [] c = "9" -> 9

\* String.prototype.includes
Includes(text, sub) ==
    \E i \in 0..(Len(text) - Len(sub)) : SubSeq(text, i + 1, i + Len(sub)) = sub

\* String.prototype.startsWith
StartsWith(s, prefix) ==
    Len(prefix) <= Len(s) /\ SubSeq(s, 1, Len(prefix)) = prefix

\* s.substring(0, n)
Substring0(s, n) == SubSeq(s, 1, IF Len(s) < n THEN Len(s) ELSE n)

\* a.slice(0): no end given, the whole array
Slice0Uncapped(a, n) == a

\* a.slice(0, n)
Slice0(a, n) == SubSeq(a, 1, IF Len(a) < n THEN Len(a) ELSE n)

\* s.split(/[A-Z0-9]/)[0]: the part of s before its first uppercase Latin
\* letter or digit (all of s when it has none)
RECURSIVE SplitFirstSegment(_)
SplitFirstSegment(s) ==
    IF s = <<>> \/ Head(s) \in UpperLetters \cup Digits
    THEN <<>>
    ELSE <<Head(s)>> \o SplitFirstSegment(Tail(s))

(***************************************************************************)
(* localAiService.ts: extractQuantity and matchProductLocally              *)
(***************************************************************************)
\* number | null and string | null of MatchResult
NullQty == -1

NullId == <<"null">>

\* CHINESE_NUMBERS in the order of its entries (the order Object.entries gives)
CHINESE_NUMBERS ==
    << <<"yi", 1>>, <<"er", 2>>, <<"liang", 2>>, <<"san", 3>>, <<"si", 4>>,
       <<"wu", 5>>, <<"liu", 6>>, <<"qi", 7>>, <<"ba", 8>>, <<"jiu", 9>>,
       <<"shi", 10>> >>

\* parseInt of a run of digits
RECURSIVE ParseInt(_)
ParseInt(ds) ==
    IF ds = <<>> THEN 0
    ELSE ParseInt(SubSeq(ds, 1, Len(ds) - 1)) * 10 + DigitValue(ds[Len(ds)])

\* the run of digits that starts at position i
RECURSIVE DigitRun(_, _)
DigitRun(text, i) ==
    IF i > Len(text) \/ text[i] \notin Digits
    THEN <<>>
    ELSE <<text[i]>> \o DigitRun(text, i + 1)

\* text.match(/(\d+)/): the leftmost maximal run of digits, <<>> for no match
ArabicMatch(text) ==
    IF \E i \in 1..Len(text) : text[i] \in Digits
    THEN DigitRun(text, CHOOSE i \in 1..Len(text) :
                          /\ text[i] \in Digits
                          /\ \A j \in 1..(i - 1) : text[j] \notin Digits)
    ELSE <<>>

\* the for loop over Object.entries(CHINESE_NUMBERS), from entry k on
RECURSIVE ChineseScan(_, _)
ChineseScan(text, k) ==
    IF k > Len(CHINESE_NUMBERS) THEN NullQty
    ELSE IF Includes(text, <<CHINESE_NUMBERS[k][1]>>) THEN CHINESE_NUMBERS[k][2]
    ELSE ChineseScan(text, k + 1)

\* extractQuantity keeping the last quantity it found: a text without a
\* quantity gets the one of the previous call
extractQuantityRemembering(text) ==
    IF ArabicMatch(text) # <<>> THEN ParseInt(ArabicMatch(text))
    ELSE IF ChineseScan(text, 1) # NullQty THEN ChineseScan(text, 1)
    ELSE scorerCall.previous.detectedQuantity

\* extractQuantity with its two scans in the other order: number-words first
extractQuantityWordsFirst(text) ==
    IF ChineseScan(text, 1) # NullQty THEN ChineseScan(text, 1)
    ELSE IF ArabicMatch(text) # <<>> THEN ParseInt(ArabicMatch(text))
    ELSE NullQty

extractQuantity(text) ==
    IF ArabicMatch(text) # <<>> THEN ParseInt(ArabicMatch(text))
    ELSE ChineseScan(text, 1)

IdMatchScore == 100

NameMatchScore == 50

PartialNameScore == 5

BaseSegmentScore == 10

ConfidentThreshold == 40

SuggestionCap == 5

\* the score with the partial-name rule asking for a name of more than three
\* characters
ProductScoreLongNamesOnly(normalizedText, product) ==
    LET pName == ToLowerCase(product.name)
        pId   == ToLowerCase(product.id)
    IN  (IF Includes(normalizedText, pId) THEN IdMatchScore ELSE 0)
      + (IF Includes(normalizedText, pName) THEN NameMatchScore ELSE 0)
      + (IF Len(pName) > 3 /\ Includes(normalizedText, Substring0(pName, 2))
         THEN PartialNameScore ELSE 0)
      + (IF \/ StartsWith(pName, normalizedText)
            \/ Includes(normalizedText, SplitFirstSegment(pName))
         THEN BaseSegmentScore ELSE 0)

\* the score with the name rule satisfied by the first character of the name
ProductScoreFirstCharacter(normalizedText, product) ==
    LET pName == ToLowerCase(product.name)
        pId   == ToLowerCase(product.id)
    IN  (IF Includes(normalizedText, pId) THEN IdMatchScore ELSE 0)
      + (IF Includes(normalizedText, Substring0(pName, 1)) THEN NameMatchScore ELSE 0)
      + (IF Len(pName) > 2 /\ Includes(normalizedText, Substring0(pName, 2))
         THEN PartialNameScore ELSE 0)
      + (IF \/ StartsWith(pName, normalizedText)
            \/ Includes(normalizedText, SplitFirstSegment(pName))
         THEN BaseSegmentScore ELSE 0)

\* the score of one product, the body of products.map
ProductScore(normalizedText, product) ==
    LET pName == ToLowerCase(product.name)
        pId   == ToLowerCase(product.id)
    IN  (IF Includes(normalizedText, pId) THEN IdMatchScore ELSE 0)
      + (IF Includes(normalizedText, pName) THEN NameMatchScore ELSE 0)
      + (IF Len(pName) > 2 /\ Includes(normalizedText, Substring0(pName, 2))
         THEN PartialNameScore ELSE 0)
      + (IF \/ StartsWith(pName, normalizedText)
            \/ Includes(normalizedText, SplitFirstSegment(pName))
         THEN BaseSegmentScore ELSE 0)

\* candidates.sort((a, b) => b.score - a.score): Array.prototype.sort is
\* stable, so equal scores keep their order
\* the insertion of a sort that puts the later of two equal scores first
RECURSIVE InsertByScoreTiesReversed(_, _)
InsertByScoreTiesReversed(sorted, c) ==
    IF sorted = <<>> THEN <<c>>
    ELSE IF Head(sorted).score > c.score
         THEN <<Head(sorted)>> \o InsertByScoreTiesReversed(Tail(sorted), c)
         ELSE <<c>> \o sorted

RECURSIVE InsertByScore(_, _)
InsertByScore(sorted, c) ==
    IF sorted = <<>> THEN <<c>>
    ELSE IF Head(sorted).score >= c.score
         THEN <<Head(sorted)>> \o InsertByScore(Tail(sorted), c)
         ELSE <<c>> \o sorted

RECURSIVE SortByScore(_)
SortByScore(cs) ==
    IF cs = <<>> THEN <<>>
    ELSE InsertByScore(SortByScore(SubSeq(cs, 1, Len(cs) - 1)), cs[Len(cs)])

\* Array.prototype.filter
RECURSIVE FilterPositive(_)
FilterPositive(cs) ==
    IF cs = <<>> THEN <<>>
    ELSE (IF Head(cs).score > 0 THEN <<Head(cs)>> ELSE <<>>) \o FilterPositive(Tail(cs))

\* the scored and sorted candidates
ScoredCandidates(text, prods) ==
    LET normalizedText == ToLowerCase(text) IN
    SortByScore([i \in 1..Len(prods) |->
                    [product |-> prods[i],
                     score   |-> ProductScore(normalizedText, prods[i])]])

\* bestMatch && bestMatch.score >= 40 ? bestMatch.product.id : null
MatchedProductIdAnyScore(cands) ==
    IF cands # <<>> /\ cands[1].score >= 0
    THEN cands[1].product.id ELSE NullId

\* the threshold set at the base-segment bonus
MatchedProductIdWeakSignals(cands) ==
    IF cands # <<>> /\ cands[1].score >= BaseSegmentScore
    THEN cands[1].product.id ELSE NullId

MatchedProductId(cands) ==
    IF cands # <<>> /\ cands[1].score >= ConfidentThreshold
    THEN cands[1].product.id ELSE NullId

matchProductLocally(text, prods) ==
    LET cands == ScoredCandidates(text, prods)
        top == Slice0(FilterPositive(cands), SuggestionCap)
    IN  [matchedProductId |-> MatchedProductId(cands),
         detectedQuantity |-> extractQuantity(ToLowerCase(text)),
         suggestions      |-> [i \in 1..Len(top) |-> top[i].product.id]]

(***************************************************************************)
(* VoiceRecorder.tsx: the recognition engine as the handlers see it        *)
(***************************************************************************)
CountdownSeconds == 15

\* recognition.start(): throws when the engine is not idle (InvalidStateError)
\* and may throw for reasons of the platform (ok = FALSE); otherwise the
\* engine starts and will report onstart.
StartSucceeds(e, ok) == e = "idle" /\ ok

\* recognition.stop(): a started engine will end; an idle engine is unaffected
\* and reports no end event.
RecognitionStop(e) == IF e \in {"starting", "running"} THEN "stopping" ELSE e

\* The cumulative text of the current sub-attempt as the engine reports it.
CumulativeText(results) == Flatten(results)

\* onresult, the second loop: the transcripts of event.results[0..length-1]
\* concatenated.  (The first loop's finalStr is never read.)
FullChunkTranscriptNewestOnly(results) == results[Len(results)]

RECURSIVE FullChunkFrom(_, _)
FullChunkFrom(results, i) ==
    IF i > Len(results) THEN <<>> ELSE results[i] \o FullChunkFrom(results, i + 1)

FullChunkTranscript(results) == FullChunkFrom(results, 1)

\* onend: the auto-restart condition.
ShouldRestartManualOnly(active, manual) == active /\ manual

ShouldRestart(active, manual) == active /\ ~manual

\* finalizeSession: the text handed to onTranscript (empty: nothing is handed).
CleanTextUntrimmed(acc, chunk) == acc \o chunk

CleanText(acc, chunk) == Trim(acc \o chunk)

(***************************************************************************)
(* VoiceRecorder.tsx: helpers called by the handlers                       *)
(***************************************************************************)
\* stopLogic as the first revision of a stop would be: the engine is stopped,
\* the session bookkeeping is left alone.
StopLogicEngineOnly(e) ==
    /\ UNCHANGED <<timerIntervalRef, maxDurationTimeoutRef, restartTimeoutRef,
                   isSessionActiveRef>>
    /\ engine' = IF recognitionRef THEN RecognitionStop(e) ELSE e

\* stopLogic without the clearTimeout of the restart timeout
StopLogicKeepsRestartTimer(e) ==
    /\ timerIntervalRef' = FALSE
    /\ maxDurationTimeoutRef' = FALSE
    /\ UNCHANGED restartTimeoutRef
    /\ isSessionActiveRef' = FALSE
    /\ engine' = IF recognitionRef THEN RecognitionStop(e) ELSE e

\* stopLogic, run when the engine is in state e
StopLogic(e) ==
    /\ timerIntervalRef' = FALSE
    /\ maxDurationTimeoutRef' = FALSE
    /\ restartTimeoutRef' = FALSE
    /\ isSessionActiveRef' = FALSE
    /\ engine' = IF recognitionRef THEN RecognitionStop(e) ELSE e

\* finalizeSession; onTranscript is the parent's handleTranscript, which
\* raises isProcessing until its resolution completes.
FinalizeSession ==
    /\ isListening' = FALSE
    /\ LET cleanText == CleanText(accumulatedTextRef, currentChunkTextRef) IN
       IF cleanText # <<>>
       THEN /\ emitted' = Append(emitted, cleanText)
            /\ isProcessing' = TRUE
       ELSE UNCHANGED <<emitted, isProcessing>>

\* handleStopClick flipping the manual-stop flag instead of setting it
HandleStopClickTogglesFlag ==
    /\ manuallyStoppedRef' = ~manuallyStoppedRef
    /\ StopLogic(engine)
    /\ stopRequested' = (stopRequested \/ isSessionActiveRef)
    /\ stopCalls' = IF stopCalls < MaxStopCalls THEN stopCalls + 1 ELSE stopCalls
    /\ UNCHANGED <<isListening, error, timeLeft, isProcessing, recognitionRef,
                   accumulatedTextRef, currentChunkTextRef, subAttempts, emitted,
                   sessions, startCalls, fatalSeen>>

\* handleStopClick (its callers say whether the deadline callback made the call)
HandleStopClick ==
    /\ manuallyStoppedRef' = TRUE
    /\ StopLogic(engine)
    /\ stopRequested' = (stopRequested \/ isSessionActiveRef)
    /\ stopCalls' = IF stopCalls < MaxStopCalls THEN stopCalls + 1 ELSE stopCalls
    /\ UNCHANGED <<isListening, error, timeLeft, isProcessing, recognitionRef,
                   accumulatedTextRef, currentChunkTextRef, subAttempts, emitted,
                   sessions, startCalls, fatalSeen>>

\* startLogic
StartLogic ==
    IF ~recognitionRef
    THEN UNCHANGED captureVars
    ELSE /\ sessions < MaxSessions
         /\ \E ok \in BOOLEAN :
              /\ isSessionActiveRef' = TRUE
              /\ manuallyStoppedRef' = FALSE
              /\ accumulatedTextRef' = <<>>
              /\ currentChunkTextRef' = <<>>
              /\ timeLeft' = CountdownSeconds
              /\ IF StartSucceeds(engine, ok)
                 THEN /\ engine' = "starting"
                      /\ isListening' = TRUE
                      /\ error' = "none"
                      /\ timerIntervalRef' = TRUE
                      /\ maxDurationTimeoutRef' = TRUE
                      /\ subAttempts' = << <<>> >>
                 ELSE /\ engine' = engine
                      /\ isListening' = FALSE
                      /\ error' = "start_failed"
                      /\ UNCHANGED <<timerIntervalRef, maxDurationTimeoutRef>>
                      /\ subAttempts' = <<>>
              /\ sessions' = sessions + 1
              /\ startCalls' = 1
              /\ emitted' = <<>>
              /\ stopRequested' = FALSE
              /\ deadlineFired' = FALSE
              /\ fatalSeen' = FALSE
              /\ stopCalls' = 0
              /\ UNCHANGED <<isProcessing, recognitionRef, restartTimeoutRef>>

(***************************************************************************)
(* VoiceRecorder.tsx: the handlers                                         *)
(***************************************************************************)
\* handleToggleClick without the isListening branch: every click starts
HandleToggleClickAlwaysStarts ==
    /\ UNCHANGED outsideRecorder
    /\ IF isProcessing THEN UNCHANGED captureVars ELSE StartLogic

\* handleToggleClick (the button is disabled while isProcessing)
HandleToggleClick ==
    /\ UNCHANGED outsideRecorder
    /\ IF isProcessing
       THEN UNCHANGED captureVars
       ELSE IF isListening
            THEN HandleStopClick /\ UNCHANGED deadlineFired
            ELSE StartLogic

\* recognition.onstart
OnStart ==
    /\ engine = "starting"
    /\ engine' = "running"
    /\ error' = IF isSessionActiveRef THEN "none" ELSE error
    /\ UNCHANGED <<isListening, timeLeft, isProcessing, recognitionRef,
                   isSessionActiveRef, manuallyStoppedRef, accumulatedTextRef,
                   currentChunkTextRef, timerIntervalRef, maxDurationTimeoutRef,
                   restartTimeoutRef, subAttempts, emitted, sessions, startCalls,
                   stopRequested, deadlineFired, fatalSeen,
                   stopCalls>>
    /\ UNCHANGED outsideRecorder

\* recognition.onresult; a stopped engine may still deliver its last result
OnResult ==
    /\ engine \in {"running", "stopping"}
    /\ \E results \in ResultLists :
         /\ currentChunkTextRef' = FullChunkTranscript(results)
         /\ subAttempts' = [subAttempts EXCEPT ![Len(subAttempts)] = CumulativeText(results)]
    /\ UNCHANGED <<isListening, error, timeLeft, isProcessing, recognitionRef,
                   isSessionActiveRef, manuallyStoppedRef, accumulatedTextRef,
                   timerIntervalRef, maxDurationTimeoutRef, restartTimeoutRef,
                   engine, emitted, sessions, startCalls, stopRequested,
                   deadlineFired, fatalSeen,
                   stopCalls>>
    /\ UNCHANGED outsideRecorder

\* recognition.onerror; an engine that reported an error delivers no further
\* result and then ends ("failed": only its end event is still to come)
OnError ==
    /\ engine \in {"starting", "running", "stopping"}
    /\ \E code \in ErrorCodes :
         IF code \in {"not-allowed", "service-not-allowed"}
         THEN /\ StopLogic("failed")
              /\ error' = "mic_denied"
              /\ fatalSeen' = (fatalSeen \/ isSessionActiveRef)
         ELSE /\ engine' = "failed"
              /\ UNCHANGED <<timerIntervalRef, maxDurationTimeoutRef,
                             restartTimeoutRef, isSessionActiveRef, error, fatalSeen>>
    /\ UNCHANGED <<isListening, timeLeft, isProcessing, recognitionRef,
                   manuallyStoppedRef, accumulatedTextRef, currentChunkTextRef,
                   subAttempts, emitted, sessions, startCalls, stopRequested,
                   deadlineFired, stopCalls>>
    /\ UNCHANGED outsideRecorder

\* recognition.onend with finalizeSession run on every end, before the branch
OnEndFinalizingAlways ==
    /\ engine \in {"running", "stopping", "failed"}
    /\ engine' = "idle"
    /\ FinalizeSession
    /\ IF ShouldRestart(isSessionActiveRef, manuallyStoppedRef)
       THEN /\ accumulatedTextRef' = accumulatedTextRef \o currentChunkTextRef
            /\ currentChunkTextRef' = <<>>
            /\ restartTimeoutRef' = TRUE
       ELSE UNCHANGED <<accumulatedTextRef, currentChunkTextRef, restartTimeoutRef>>
    /\ UNCHANGED <<error, timeLeft, recognitionRef, isSessionActiveRef,
                   manuallyStoppedRef, timerIntervalRef, maxDurationTimeoutRef,
                   subAttempts, sessions, startCalls, stopRequested,
                   deadlineFired, fatalSeen,
                   stopCalls>>
    /\ UNCHANGED outsideRecorder

\* recognition.onend
OnEnd ==
    /\ engine \in {"running", "stopping", "failed"}
    /\ engine' = "idle"
    /\ IF ShouldRestart(isSessionActiveRef, manuallyStoppedRef)
       THEN /\ accumulatedTextRef' = accumulatedTextRef \o currentChunkTextRef
            /\ currentChunkTextRef' = <<>>
            /\ restartTimeoutRef' = TRUE
            /\ UNCHANGED <<isListening, emitted, isProcessing>>
       ELSE /\ FinalizeSession
            /\ UNCHANGED <<accumulatedTextRef, currentChunkTextRef, restartTimeoutRef>>
    /\ UNCHANGED <<error, timeLeft, recognitionRef, isSessionActiveRef,
                   manuallyStoppedRef, timerIntervalRef, maxDurationTimeoutRef,
                   subAttempts, sessions, startCalls, stopRequested,
                   deadlineFired, fatalSeen,
                   stopCalls>>
    /\ UNCHANGED outsideRecorder

\* the callback of the 100 ms restart timeout armed by onend
RestartTimerFires ==
    /\ restartTimeoutRef
    /\ restartTimeoutRef' = FALSE
    /\ IF isSessionActiveRef
       THEN /\ startCalls < MaxStartCalls
            /\ \E ok \in BOOLEAN :
                 IF StartSucceeds(engine, ok)
                 THEN /\ engine' = "starting"
                      /\ subAttempts' = Append(subAttempts, <<>>)
                 ELSE UNCHANGED <<engine, subAttempts>>
            /\ startCalls' = startCalls + 1
       ELSE UNCHANGED <<engine, subAttempts, startCalls>>
    /\ UNCHANGED <<isListening, error, timeLeft, isProcessing, recognitionRef,
                   isSessionActiveRef, manuallyStoppedRef, accumulatedTextRef,
                   currentChunkTextRef, timerIntervalRef, maxDurationTimeoutRef,
                   emitted, sessions, stopRequested, deadlineFired, fatalSeen,
                   stopCalls>>
    /\ UNCHANGED outsideRecorder

\* the callback of the 15 s hard-stop timeout armed by startLogic
DeadlineFires ==
    /\ maxDurationTimeoutRef
    /\ HandleStopClick
    /\ deadlineFired' = TRUE
    /\ UNCHANGED outsideRecorder

\* the callback of the 1 s countdown interval armed by startLogic
Tick ==
    /\ timerIntervalRef
    /\ timeLeft' = IF timeLeft - 1 > 0 THEN timeLeft - 1 ELSE 0
    /\ UNCHANGED <<isListening, error, isProcessing, recognitionRef,
                   isSessionActiveRef, manuallyStoppedRef, accumulatedTextRef,
                   currentChunkTextRef, timerIntervalRef, maxDurationTimeoutRef,
                   restartTimeoutRef, engine, subAttempts, emitted, sessions,
                   startCalls, stopRequested, deadlineFired, fatalSeen,
                   stopCalls>>
    /\ UNCHANGED outsideRecorder

\* the parent's handleTranscript reaches its finally block
ResolutionCompletes ==
    /\ isProcessing
    /\ isProcessing' = FALSE
    /\ UNCHANGED <<isListening, error, timeLeft, recognitionRef,
                   isSessionActiveRef, manuallyStoppedRef, accumulatedTextRef,
                   currentChunkTextRef, timerIntervalRef, maxDurationTimeoutRef,
                   restartTimeoutRef, engine, subAttempts, emitted, sessions,
                   startCalls, stopRequested, deadlineFired, fatalSeen,
                   stopCalls>>
    /\ UNCHANGED outsideRecorder

(***************************************************************************)
(* The catalog and the remote end                                          *)
(***************************************************************************)
ProductGS == [id |-> <<"G", "1">>, name |-> <<"gou", "tao", "S">>]

ProductGM == [id |-> <<"G", "2">>, name |-> <<"gou", "tao", "M">>]

ProductHX == [id |-> <<"C", "1">>, name |-> <<"hu", "xi">>]

\* further sizes of the same base, and a catalog with more products than the
\* suggestions can hold
ProductGL == [id |-> <<"G", "3">>, name |-> <<"gou", "tao", "L">>]

ProductGX == [id |-> <<"G", "4">>, name |-> <<"gou", "tao", "X">>]

ProductGA == [id |-> <<"G", "5">>, name |-> <<"gou", "tao", "A">>]

ProductGB == [id |-> <<"G", "6">>, name |-> <<"gou", "tao", "B">>]

LargeCatalog ==
    <<ProductHX, ProductGM, ProductGS, ProductGL, ProductGX, ProductGA, ProductGB>>

\* selectedProduct === null
NullProduct == [id |-> NullId, name |-> <<>>]

\* an identifier that no catalog product has
UnknownId == <<"Z", "9">>

\* The catalogs the modal is opened with.
ModalCatalogs == {<<>>, <<ProductHX>>, <<ProductGS, ProductGM, ProductHX>>}

\* The texts handleTranscript is called with.
SpokenTexts == {<<>>, <<" ">>, <<"hu", "xi_w">>, <<"liang", "ge", "gou", "tao">>,
                <<"G", "1", "san", "ge">>}

\* The JSON values a backend can reply with.  shape tells what JSON.parse
\* gives: an object with a suggestions array ("object"), an object without
\* suggestions ("no_suggestions"), an object whose suggestions is a number
\* ("suggestions_not_array"), or null ("null").
JsonReply(shape, id, qty, ids) ==
    [shape |-> shape, matchedProductId |-> id, detectedQuantity |-> qty,
     suggestions |-> ids]

JsonReplies ==
    { JsonReply("object", NullId, NullQty, <<>>),
      JsonReply("object", <<"G", "1">>, 3, <<<<"C", "1">>, <<"G", "1">>>>),
      JsonReply("object", <<"G", "1">>, 0, <<>>),
      JsonReply("object", NullId, 3, <<<<"C", "1">>, <<"G", "1">>>>),
      JsonReply("object", <<"C", "1">>, NullQty, <<<<"G", "1">>, <<"C", "1">>>>),
      JsonReply("object", NullId, NullQty, <<<<"G", "2">>, <<"G", "2">>>>),
      JsonReply("object", UnknownId, 3, <<UnknownId>>),
      JsonReply("object", UnknownId, NullQty, <<>>),
      JsonReply("no_suggestions", <<"G", "1">>, 3, <<>>),
      JsonReply("no_suggestions", NullId, NullQty, <<>>),
      JsonReply("suggestions_not_array", NullId, 3, <<>>),
      JsonReply("null", NullId, NullQty, <<>>) }

EmptyResult ==
    [shape |-> "object", matchedProductId |-> NullId, detectedQuantity |-> NullQty,
     suggestions |-> <<>>]

HttpUnauthorized == 401

HttpServerError == 500

\* What the remote end does with one request: the request fails on the
\* network ("network"), is answered with an error status ("http"; bodyHas401
\* tells whether the error body contains the characters 401), is answered
\* with text that is empty or cannot be parsed ("unparseable"), or is answered
\* with a JSON value ("json").
RemoteReplies ==
    [kind : {"network", "unparseable"}, status : {0}, bodyHas401 : {FALSE},
     json : {EmptyResult}]
    \cup
    {[kind |-> "http", status |-> HttpUnauthorized, bodyHas401 |-> TRUE,
      json |-> EmptyResult]}
    \cup
    [kind : {"http"}, status : {HttpServerError}, bodyHas401 : BOOLEAN,
     json : {EmptyResult}]
    \cup
    [kind : {"json"}, status : {200}, bodyHas401 : {FALSE}, json : JsonReplies]

NoReply == [kind |-> "none", status |-> 0, bodyHas401 |-> FALSE, json |-> EmptyResult]

\* the MatchResult of matchProductLocally as handleTranscript passes it on
LocalMatch(text, prods) ==
    LET m == matchProductLocally(text, prods) IN
    [shape |-> "object", matchedProductId |-> m.matchedProductId,
     detectedQuantity |-> m.detectedQuantity, suggestions |-> m.suggestions]

(***************************************************************************)
(* matchProductFromTranscript, three revisions.  Each gives                *)
(* [threw, msgIsString, has401, result]: whether the promise is rejected,  *)
(* whether the error's message is a string and whether it contains "401",  *)
(* and the value of a fulfilled promise.  Every rejection is an Error made *)
(* by fetch, by JSON.parse, by a property access or by new Error(text).    *)
(***************************************************************************)
Fulfilled(result) ==
    [threw |-> FALSE, msgIsString |-> TRUE, has401 |-> FALSE, result |-> result]

Rejected(has401) ==
    [threw |-> TRUE, msgIsString |-> TRUE, has401 |-> has401, result |-> EmptyResult]

\* geminiService.ts: every failure inside the try is caught and turned into
\* the empty result
GeminiCatching(text, reply) ==
    IF Trim(text) = <<>> THEN Fulfilled(EmptyResult)
    ELSE IF reply.kind = "json" THEN Fulfilled(reply.json)
    ELSE Fulfilled(EmptyResult)

\* the revision of geminiService kept in excelService.ts: no try/catch
GeminiThrowing(text, reply) ==
    IF Trim(text) = <<>> THEN Fulfilled(EmptyResult)
    ELSE IF reply.kind = "json" THEN Fulfilled(reply.json)
    ELSE Rejected(reply.kind = "http" /\ (reply.status = HttpUnauthorized \/ reply.bodyHas401))

\* the ModelScope matcher kept in localAiService.ts
ModelScope(text, reply) ==
    IF Trim(text) = <<>> THEN Fulfilled(EmptyResult)
    ELSE CASE reply.kind = "network" -> Rejected(FALSE)
           [] reply.kind = "http" ->
                Rejected(reply.status = HttpUnauthorized \/ reply.bodyHas401)
           [] reply.kind = "unparseable" -> Rejected(FALSE)
           [] reply.kind = "json" ->
                IF reply.json.shape = "null" THEN Rejected(FALSE)
                ELSE IF reply.json.shape = "no_suggestions"
                     THEN Fulfilled([reply.json EXCEPT !.shape = "object",
                                                       !.suggestions = <<>>])
                     ELSE Fulfilled(reply.json)

matchProductFromTranscript(b, text, reply) ==
    CASE b = "A_catch" -> GeminiCatching(text, reply)
      [] b = "A_throw" -> GeminiThrowing(text, reply)
      [] b = "B" -> ModelScope(text, reply)

(***************************************************************************)
(* AddItemModal: processMatchResult, two revisions.  ui is                 *)
(* [step, candidates, selectedProduct, quantity]; the result is            *)
(* [threw, ui]: whether a TypeError was thrown, and the state after.       *)
(***************************************************************************)
\* products.find(p => p.id === id)
RECURSIVE FindProduct(_, _)
FindProduct(prods, id) ==
    IF prods = <<>> THEN NullProduct
    ELSE IF Head(prods).id = id THEN Head(prods) ELSE FindProduct(Tail(prods), id)

SeqContains(ids, id) == \E i \in 1..Len(ids) : ids[i] = id

\* products.filter(p => ids contains p.id)
RECURSIVE FilterByIds(_, _)
FilterByIds(prods, ids) ==
    IF prods = <<>> THEN <<>>
    ELSE (IF Head(prods).id \in ids THEN <<Head(prods)>> ELSE <<>>)
         \o FilterByIds(Tail(prods), ids)

\* a detectedQuantity that is truthy: neither null nor 0
Truthy(q) == q # NullQty /\ q # 0

\* the candidates set when the match names no product of the catalog:
\* setCandidates(products)
NoSuggestionCandidatesNone(prods) == <<>>

NoSuggestionCandidates(prods) == prods

\* src/components/AddItemModal.tsx
ProcessMatchResultA(match, prods, ui) ==
    IF match.shape = "null" THEN [threw |-> TRUE, ui |-> ui]
    ELSE IF match.matchedProductId # NullId
            /\ FindProduct(prods, match.matchedProductId) # NullProduct
    THEN [threw |-> FALSE,
          ui |-> [ui EXCEPT !.selectedProduct = FindProduct(prods, match.matchedProductId),
                            !.quantity = IF Truthy(match.detectedQuantity)
                                         THEN match.detectedQuantity ELSE @,
                            !.step = "CONFIRM_QTY"]]
    ELSE IF match.shape = "no_suggestions" THEN [threw |-> TRUE, ui |-> ui]
    ELSE IF match.shape = "object" /\ Len(match.suggestions) > 0
    THEN [threw |-> FALSE,
          ui |-> [ui EXCEPT !.candidates =
                                FilterByIds(prods, {match.suggestions[i] :
                                                    i \in 1..Len(match.suggestions)}),
                            !.quantity = IF Truthy(match.detectedQuantity)
                                         THEN match.detectedQuantity ELSE @,
                            !.step = "SELECT_PRODUCT"]]
    ELSE [threw |-> FALSE,
          ui |-> [ui EXCEPT !.candidates = NoSuggestionCandidates(prods),
                            !.step = "SELECT_PRODUCT"]]

\* the filtered products left unsorted
MatchedFirstUnsorted(ps, id) == ps

\* matchedProducts.sort(...): the product named by matchedProductId first, the
\* others in their order
MatchedFirst(ps, id) ==
    SelectSeq(ps, LAMBDA p : p.id = id) \o SelectSeq(ps, LAMBDA p : p.id # id)

\* the AddItemModal kept in update-manifest.js
ProcessMatchResultB(match, prods, ui) ==
    IF match.shape # "object" THEN [threw |-> TRUE, ui |-> ui]
    ELSE
    LET allIds == (IF match.matchedProductId # NullId
                   THEN {match.matchedProductId} ELSE {})
                  \cup {match.suggestions[i] : i \in 1..Len(match.suggestions)}
        matchedProducts == MatchedFirst(FilterByIds(prods, allIds),
                                        match.matchedProductId)
    IN  [threw |-> FALSE,
         ui |-> [ui EXCEPT !.candidates = IF Len(matchedProducts) > 0
                                          THEN matchedProducts
                                          ELSE NoSuggestionCandidates(prods),
                           !.quantity = IF Truthy(match.detectedQuantity)
                                        THEN match.detectedQuantity ELSE 1,
                           !.step = "SELECT_PRODUCT"]]

(***************************************************************************)
(* AddItemModal: handleTranscript and the controls around it               *)
(***************************************************************************)
MaxResolutions == 2    \* handleTranscript calls explored
MaxInflight == 2       \* handleTranscript calls suspended at the same time

CurrentUi ==
    [step |-> step, candidates |-> candidates, selectedProduct |-> selectedProduct,
     quantity |-> quantity]

SetUi(ui) ==
    /\ step' = ui.step
    /\ candidates' = ui.candidates
    /\ selectedProduct' = ui.selectedProduct
    /\ quantity' = ui.quantity

\* setCandidates(products); setStep('SELECT_PRODUCT')
ShowWholeCatalog(ui) == [ui EXCEPT !.candidates = products, !.step = "SELECT_PRODUCT"]

\* revision B, the catch block's test e.message && e.message.includes("401")
\* throws when the message is not a string
CatchTestThrows(o) == o.threw /\ ~o.msgIsString

\* finally { setIsProcessing(false) }
FinallyKeepsProcessing(p) == p

FinallyIsProcessing(p) == FALSE

\* revision A, the local branch: matchProductLocally, then processMatchResult;
\* an exception goes to the outer catch
LocalBranchA(text, ui) ==
    LET r == ProcessMatchResultA(LocalMatch(text, products), products, ui) IN
    IF r.threw THEN ShowWholeCatalog(ui) ELSE r.ui

\* revision A, handleTranscript up to its await, or to its end when offline
HandleTranscriptA ==
    /\ build \in {"A_catch", "A_throw"}
    /\ step = "RECORD"
    /\ inflight = <<>>
    /\ resolutions < MaxResolutions
    /\ \E text \in SpokenTexts, online \in BOOLEAN :
         /\ transcript' = text
         /\ searchTerm' = <<>>
         /\ resolutions' = resolutions + 1
         /\ IF online
            THEN /\ isProcessing' = TRUE
                 /\ inflight' = <<[text |-> text, online |-> TRUE]>>
                 /\ lastText' = <<>>
                 /\ lastOnline' = TRUE
                 /\ lastReply' = NoReply
                 /\ usedMatches' = <<>>
                 /\ UNCHANGED <<step, candidates, selectedProduct, quantity,
                                usedOfflineMatch>>
            ELSE /\ SetUi(LocalBranchA(text, CurrentUi))
                 /\ usedOfflineMatch' = TRUE
                 /\ isProcessing' = FinallyIsProcessing(TRUE)
                 /\ lastText' = text
                 /\ lastOnline' = FALSE
                 /\ lastReply' = NoReply
                 /\ usedMatches' = <<LocalMatch(text, products)>>
                 /\ UNCHANGED inflight
    /\ UNCHANGED <<build, products, useAI, apiError, showApiKeyInput, escaped>>
    /\ UNCHANGED outsideModal

\* revision A, handleTranscript from its await on
RemoteSettlesA ==
    /\ build \in {"A_catch", "A_throw"}
    /\ inflight # <<>>
    /\ \E reply \in RemoteReplies :
         LET call  == Head(inflight)
             o     == matchProductFromTranscript(build, call.text, reply)
             r     == ProcessMatchResultA(o.result, products, CurrentUi)
             local == LocalMatch(call.text, products)
         IN  /\ IF ~o.threw /\ ~r.threw
                THEN /\ SetUi(r.ui)
                     /\ usedOfflineMatch' = FALSE
                     /\ usedMatches' = <<o.result>>
                ELSE /\ SetUi(LocalBranchA(call.text, CurrentUi))
                     /\ usedOfflineMatch' = TRUE
                     /\ usedMatches' = IF o.threw THEN <<local>> ELSE <<o.result, local>>
             /\ lastText' = call.text
             /\ lastOnline' = TRUE
             /\ lastReply' = reply
    /\ inflight' = Tail(inflight)
    /\ isProcessing' = FinallyIsProcessing(isProcessing)
    /\ UNCHANGED <<build, products, transcript, searchTerm, useAI, apiError,
                   showApiKeyInput, escaped, resolutions>>
    /\ UNCHANGED outsideModal

\* revision B, handleTranscript up to its await, or to its return
HandleTranscriptB ==
    /\ build = "B"
    /\ step = "RECORD"
    /\ Len(inflight) < MaxInflight
    /\ resolutions < MaxResolutions
    /\ \E text \in SpokenTexts, online \in BOOLEAN :
         /\ resolutions' = resolutions + 1
         /\ IF Trim(text) = <<>>
            THEN UNCHANGED <<transcript, searchTerm, apiError, candidates, quantity,
                             step, isProcessing, inflight, lastText, lastOnline,
                             lastReply, usedMatches>>
            ELSE /\ transcript' = text
                 /\ apiError' = "none"
                 /\ lastText' = <<>>
                 /\ lastOnline' = TRUE
                 /\ lastReply' = NoReply
                 /\ usedMatches' = <<>>
                 /\ IF ~useAI
                    THEN /\ searchTerm' = text
                         /\ candidates' = products
                         /\ quantity' = 1
                         /\ step' = "SELECT_PRODUCT"
                         /\ UNCHANGED <<isProcessing, inflight>>
                    ELSE /\ searchTerm' = <<>>
                         /\ isProcessing' = TRUE
                         /\ inflight' = Append(inflight, [text |-> text, online |-> online])
                         /\ UNCHANGED <<candidates, quantity, step>>
    /\ UNCHANGED <<build, products, selectedProduct, usedOfflineMatch, useAI,
                   showApiKeyInput, escaped>>
    /\ UNCHANGED outsideModal

\* revision B, handleTranscript from its await on; a device that is offline
\* gets no reply
RemoteSettlesB ==
    /\ build = "B"
    /\ \E i \in 1..Len(inflight), reply \in RemoteReplies :
         LET call == inflight[i]
             o    == matchProductFromTranscript(build, call.text, reply)
             r    == ProcessMatchResultB(o.result, products, CurrentUi)
         IN  /\ ~call.online => reply.kind = "network"
             /\ IF ~o.threw /\ ~r.threw
                THEN /\ SetUi(r.ui)
                     /\ usedMatches' = <<o.result>>
                     /\ UNCHANGED <<apiError, showApiKeyInput>>
                ELSE IF o.threw /\ o.has401
                THEN /\ apiError' = "invalid_key"
                     /\ showApiKeyInput' = TRUE
                     /\ usedMatches' = <<>>
                     /\ UNCHANGED <<step, candidates, selectedProduct, quantity>>
                ELSE /\ SetUi(ShowWholeCatalog(CurrentUi))
                     /\ usedMatches' = IF o.threw THEN <<>> ELSE <<o.result>>
                     /\ UNCHANGED <<apiError, showApiKeyInput>>
             /\ lastText' = call.text
             /\ lastOnline' = call.online
             /\ lastReply' = reply
             /\ inflight' = SubSeq(inflight, 1, i - 1) \o SubSeq(inflight, i + 1, Len(inflight))
             /\ escaped' = (escaped \/ CatchTestThrows(o))
    /\ isProcessing' = FinallyIsProcessing(isProcessing)
    /\ UNCHANGED <<build, products, transcript, searchTerm, usedOfflineMatch, useAI,
                   resolutions>>
    /\ UNCHANGED outsideModal

\* the button that browses the whole catalog (step RECORD)
BrowseAll ==
    /\ step = "RECORD"
    /\ SetUi(ShowWholeCatalog(CurrentUi))
    /\ UNCHANGED <<isProcessing, build, products, transcript, searchTerm,
                   usedOfflineMatch, useAI, apiError, showApiKeyInput, inflight,
                   escaped, resolutions, lastText, lastOnline, lastReply, usedMatches>>
    /\ UNCHANGED outsideModal

\* revision B: the microphone button beside the search bar, setStep('RECORD')
ReRecord ==
    /\ build = "B"
    /\ step = "SELECT_PRODUCT"
    /\ step' = "RECORD"
    /\ UNCHANGED <<isProcessing, build, products, transcript, candidates,
                   selectedProduct, quantity, searchTerm, usedOfflineMatch, useAI,
                   apiError, showApiKeyInput, inflight, escaped, resolutions,
                   lastText, lastOnline, lastReply, usedMatches>>
    /\ UNCHANGED outsideModal

\* revision B: the two mode buttons, setUseAI
SetUseAI ==
    /\ build = "B"
    /\ step = "RECORD"
    /\ useAI' = ~useAI
    /\ UNCHANGED <<isProcessing, build, products, step, transcript, candidates,
                   selectedProduct, quantity, searchTerm, usedOfflineMatch,
                   apiError, showApiKeyInput, inflight, escaped, resolutions,
                   lastText, lastOnline, lastReply, usedMatches>>
    /\ UNCHANGED outsideModal

\* the effect that resets the state when the modal is opened
ModalOpens ==
    /\ step # "RECORD"
    /\ step' = "RECORD"
    /\ transcript' = <<>>
    /\ candidates' = <<>>
    /\ selectedProduct' = NullProduct
    /\ quantity' = 1
    /\ searchTerm' = <<>>
    /\ isProcessing' = FALSE
    /\ usedOfflineMatch' = FALSE
    /\ useAI' = TRUE
    /\ apiError' = "none"
    /\ lastText' = <<>>
    /\ lastOnline' = TRUE
    /\ lastReply' = NoReply
    /\ usedMatches' = <<>>
    /\ UNCHANGED <<build, products, showApiKeyInput, inflight, escaped, resolutions>>
    /\ UNCHANGED outsideModal

\* The modal as mounted and opened: nothing recorded, nothing in flight.
ModalInit ==
    /\ step = "RECORD"
    /\ transcript = <<>>
    /\ candidates = <<>>
    /\ selectedProduct = NullProduct
    /\ quantity = 1
    /\ searchTerm = <<>>
    /\ usedOfflineMatch = FALSE
    /\ useAI = TRUE
    /\ apiError = "none"
    /\ showApiKeyInput = FALSE
    /\ inflight = <<>>
    /\ escaped = FALSE
    /\ resolutions = 0
    /\ lastText = <<>>
    /\ lastOnline = TRUE
    /\ lastReply = NoReply
    /\ usedMatches = <<>>

\* After the mount effect: a recognition object exists unless the browser has
\* no SpeechRecognition, in which case the error is set and no handler is wired.
CaptureInit ==
    /\ recognitionRef \in BOOLEAN
    /\ isListening = FALSE
    /\ error = IF recognitionRef THEN "none" ELSE "unsupported"
    /\ timeLeft = CountdownSeconds
    /\ isProcessing = FALSE
    /\ isSessionActiveRef = FALSE
    /\ manuallyStoppedRef = FALSE
    /\ accumulatedTextRef = <<>>
    /\ currentChunkTextRef = <<>>
    /\ timerIntervalRef = FALSE
    /\ maxDurationTimeoutRef = FALSE
    /\ restartTimeoutRef = FALSE
    /\ engine = "idle"
    /\ subAttempts = <<>>
    /\ emitted = <<>>
    /\ sessions = 0
    /\ startCalls = 0
    /\ stopRequested = FALSE
    /\ deadlineFired = FALSE
    /\ fatalSeen = FALSE
    /\ stopCalls = 0

CaptureNext ==
    \/ HandleToggleClick
    \/ OnStart
    \/ OnResult
    \/ OnError
    \/ OnEnd
    \/ RestartTimerFires
    \/ DeadlineFires
    \/ Tick
    \/ ResolutionCompletes

\* matchProductLocally not called
NoMatchYet == [matchedProductId |-> NullId, detectedQuantity |-> NullQty, suggestions |-> <<>>]

\* The calls of matchProductLocally with one pair of arguments: text and prods
\* are the arguments, done and result the state of the latest call with them,
\* calls the number of such calls, first the result of the first of them,
\* others the calls made with other arguments, previous the result of the most
\* recent call whatever its arguments.
ScorerCallOf(text, prods) ==
    [text |-> text, prods |-> prods, done |-> FALSE, result |-> NoMatchYet,
     calls |-> 0, first |-> NoMatchYet, others |-> 0, previous |-> NoMatchYet]

IdleScorer == ScorerCallOf(<<>>, <<>>)

\* The capture session, under a modal that stays as opened.
Init ==
    /\ CaptureInit
    /\ build = "B"
    /\ products = <<>>
    /\ ModalInit
    /\ scorerCall = IdleScorer

Next == CaptureNext

Spec == Init /\ [][Next]_vars

\* The resolution behind the modal, for each revision and catalog; the
\* recorder stays idle.
ResolverInit ==
    /\ CaptureInit
    /\ recognitionRef
    /\ build \in {"A_catch", "A_throw", "B"}
    /\ products \in ModalCatalogs
    /\ ModalInit
    /\ scorerCall = IdleScorer

ResolverNext ==
    \/ HandleTranscriptA
    \/ RemoteSettlesA
    \/ HandleTranscriptB
    \/ RemoteSettlesB
    \/ BrowseAll
    \/ ReRecord
    \/ SetUseAI
    \/ ModalOpens

ResolverSpec == ResolverInit /\ [][ResolverNext]_vars

(***************************************************************************)
(* matchProductLocally as a call: arguments drawn, then the result         *)
(***************************************************************************)
MaxTranscriptLen == 3  \* characters in the transcript handed to the scorer
MaxCatalog == 2        \* products in the catalog handed to the scorer

TranscriptChars == {"gou", "tao", "S", "hu", "xi", "G", "1", "liang", "yi"}

RECURSIVE SeqsUpTo(_, _)
SeqsUpTo(S, n) ==
    IF n = 0 THEN {<<>>}
    ELSE SeqsUpTo(S, n - 1)
         \cup {Append(q, c) : q \in {r \in SeqsUpTo(S, n - 1) : Len(r) = n - 1}, c \in S}

\* transcripts with digit runs that TranscriptChars does not build
DigitTexts == {<<"0">>, <<"1", "0">>, <<"0", "2">>, <<"liang", "0">>,
               <<"G", "1", "2", "ge">>}

\* every short transcript over TranscriptChars, the texts the modal is called
\* with, and the digit texts
ScorerTranscripts ==
    SeqsUpTo(TranscriptChars, MaxTranscriptLen) \cup SpokenTexts \cup DigitTexts

\* catalogs: identifiers are unique
ScorerCatalogs ==
    {c \in SeqsUpTo({ProductGS, ProductGM, ProductHX}, MaxCatalog) :
        \A i, j \in 1..Len(c) : i # j => c[i].id # c[j].id}
    \cup {LargeCatalog}

ScorerInit ==
    /\ CaptureInit
    /\ recognitionRef
    /\ build = "B"
    /\ products = <<>>
    /\ ModalInit
    /\ scorerCall \in {ScorerCallOf(t, c) : t \in ScorerTranscripts, c \in ScorerCatalogs}

\* the call returns
ScoreCatalog ==
    /\ ~scorerCall.done
    /\ LET r == matchProductLocally(scorerCall.text, scorerCall.prods) IN
       scorerCall' = [scorerCall EXCEPT !.done = TRUE, !.result = r, !.calls = 1,
                                        !.first = r, !.previous = r]
    /\ UNCHANGED <<captureVars, resolverVars>>

ScorerNext == ScoreCatalog

ScorerSpec == ScorerInit /\ [][ScorerNext]_vars

(***************************************************************************)
(* matchProductLocally called again: a first call, calls with other        *)
(* arguments, then a second call with the arguments of the first           *)
(***************************************************************************)
MaxOtherCalls == 1     \* calls with other arguments between the two calls

RepeatInit ==
    /\ CaptureInit
    /\ recognitionRef
    /\ build = "B"
    /\ products = <<>>
    /\ ModalInit
    /\ scorerCall \in {ScorerCallOf(t, c) : t \in SpokenTexts, c \in ModalCatalogs}

\* a call with other arguments returns
ScoreOther ==
    /\ scorerCall.calls = 1
    /\ scorerCall.others < MaxOtherCalls
    /\ \E t \in SpokenTexts, c \in ModalCatalogs :
         /\ <<t, c>> # <<scorerCall.text, scorerCall.prods>>
         /\ scorerCall' = [scorerCall EXCEPT !.others = @ + 1,
                                             !.previous = matchProductLocally(t, c)]
    /\ UNCHANGED <<captureVars, resolverVars>>

\* the second call with the same arguments returns
ScoreAgain ==
    /\ scorerCall.calls = 1
    /\ LET r == matchProductLocally(scorerCall.text, scorerCall.prods) IN
       scorerCall' = [scorerCall EXCEPT !.result = r, !.calls = 2, !.previous = r]
    /\ UNCHANGED <<captureVars, resolverVars>>

RepeatNext ==
    \/ ScoreCatalog
    \/ ScoreOther
    \/ ScoreAgain

RepeatSpec == RepeatInit /\ [][RepeatNext]_vars

(***************************************************************************)
(* Properties of the capture session                                       *)
(***************************************************************************)
\* Nothing is pending that could still run onend: the engine is idle and no
\* restart is scheduled.
Quiescent == engine = "idle" /\ ~restartTimeoutRef

\* C1: in a session ended by stop or by the deadline, the text passed to
\* onTranscript is the trimmed concatenation, in order, of the last cumulative
\* text the engine reported in each sub-attempt of that session.
C1_TranscriptIsStitchedText ==
    (stopRequested /\ emitted # <<>>) =>
        \A i \in 1..Len(emitted) : emitted[i] = Trim(Flatten(subAttempts))

\* A second session, stopped, emitted the text of two sub-attempts that both
\* reported text.
C1_Witness ==
    /\ sessions = 2
    /\ stopRequested
    /\ Len(emitted) = 1
    /\ Len(subAttempts) >= 2
    /\ Trim(subAttempts[1]) # <<>>
    /\ Trim(subAttempts[2]) # <<>>

\* C2: once the hard-deadline callback has run, the session is finalized
\* (isListening false) as soon as nothing is pending, whether the deadline
\* found the engine running, in the restart pause or not restarted.
C2_DeadlineFinalizes == (deadlineFired /\ Quiescent) => ~isListening

\* C3: after handleStopClick in an active session, no step of that session
\* invokes recognition.start() and no onend arms the restart timer (onend
\* takes the finalize branch).
C3_NoRestartAfterStop ==
    [][stopRequested' =>
          /\ (sessions' = sessions => startCalls' = startCalls)
          /\ (restartTimeoutRef' => restartTimeoutRef)]_vars

\* A stop after a restart, followed by the onend that finalized.
C3_Witness ==
    /\ stopRequested
    /\ Len(subAttempts) >= 2
    /\ Quiescent
    /\ ~isListening

\* C4: onTranscript is invoked at most once per session.
C4_AtMostOneTranscript == Len(emitted) <= 1

\* A session with a restart that was ended by the deadline and emitted.
C4_Witness ==
    /\ Len(emitted) = 1
    /\ Len(subAttempts) >= 2
    /\ deadlineFired

\* C5: after a stop (or the deadline) in an active session whose text is not
\* empty after trimming, onTranscript has been called with that text as soon
\* as nothing is pending.
C5_StopEmitsText ==
    (stopRequested /\ Quiescent
       /\ CleanText(accumulatedTextRef, currentChunkTextRef) # <<>>) =>
        emitted = <<CleanText(accumulatedTextRef, currentChunkTextRef)>>

\* C6: a session in which the engine reported not-allowed or
\* service-not-allowed while it was active never calls onTranscript.
C6_FatalErrorEmitsNothing == fatalSeen => emitted = <<>>

(***************************************************************************)
(* Properties of the resolution                                            *)
(***************************************************************************)
LastUsed == usedMatches[Len(usedMatches)]

\* C7: whatever the transcript, the catalog and the remote outcome, no
\* exception leaves handleTranscript, and once no call is suspended
\* isProcessing is false.
C7_HandleTranscriptCompletes == ~escaped /\ (inflight = <<>> => ~isProcessing)

\* A call on the empty catalog completed after a reply whose suggestions is
\* not an array.
C7_Witness ==
    /\ inflight = <<>>
    /\ ~isProcessing
    /\ products = <<>>
    /\ lastReply.kind = "json"
    /\ lastReply.json.shape = "suggestions_not_array"

\* C8: a result of matchProductLocally with a matchedProductId has that
\* identifier as the first of its suggestions.
C8_MatchedIsFirstSuggestion ==
    (scorerCall.done /\ scorerCall.result.matchedProductId # NullId) =>
        /\ scorerCall.result.suggestions # <<>>
        /\ scorerCall.result.suggestions[1] = scorerCall.result.matchedProductId

\* A call on a two-product catalog matched the second product.
C8_Witness ==
    /\ scorerCall.done
    /\ Len(scorerCall.prods) = 2
    /\ scorerCall.result.matchedProductId = scorerCall.prods[2].id
    /\ Len(scorerCall.result.suggestions) = 2

\* C9: a call answered with HTTP 401 uses the matchProductLocally result of
\* its transcript and catalog and also raises the auth error.
C9_AuthErrorFallsBackAndSignals ==
    (lastReply.kind = "http" /\ lastReply.status = HttpUnauthorized
       /\ Trim(lastText) # <<>>) =>
        /\ usedMatches # <<>>
        /\ LastUsed = LocalMatch(lastText, products)
        /\ apiError # "none"

\* the remote call of the last completed handleTranscript failed for a reason
\* other than HTTP 401, or the device was offline
NonAuthFailure ==
    \/ ~lastOnline
    \/ /\ Trim(lastText) # <<>>
       /\ \/ lastReply.kind \in {"network", "unparseable"}
          \/ lastReply.kind = "http" /\ lastReply.status # HttpUnauthorized

\* C10: after such a failure the call has used exactly the
\* matchProductLocally result of its transcript and catalog, and no error is
\* shown.
C10_SilentLocalFallback ==
    NonAuthFailure =>
        /\ usedMatches # <<>>
        /\ LastUsed = LocalMatch(lastText, products)
        /\ apiError = "none"

\* C11: when the match a completed call used has an empty suggestions list and
\* a matchedProductId that is null or names no catalog product, the candidates
\* are the whole catalog in catalog order.
C11_EmptyMatchShowsCatalog ==
    (usedMatches # <<>> /\ LastUsed.shape = "object" /\ LastUsed.suggestions = <<>>
       /\ FindProduct(products, LastUsed.matchedProductId) = NullProduct) =>
        candidates = products

\* A call on the three-product catalog used a match with no suggestions whose
\* matchedProductId names no product.
C11_Witness ==
    /\ usedMatches # <<>>
    /\ LastUsed.suggestions = <<>>
    /\ LastUsed.matchedProductId = UnknownId
    /\ Len(products) = 3
    /\ candidates = products

\* C12: in a session that has seen no stop, no deadline and no fatal error, an
\* engine end keeps the session listening and emits nothing: it commits the
\* current chunk, clears it and arms the one restart timer.
C12_EngineEndIsTransparent ==
    [][(engine # "idle" /\ engine' = "idle"
          /\ ~stopRequested /\ ~deadlineFired /\ ~fatalSeen) =>
          /\ isListening /\ isListening'
          /\ emitted' = emitted
          /\ isProcessing' = isProcessing
          /\ accumulatedTextRef' = accumulatedTextRef \o currentChunkTextRef
          /\ currentChunkTextRef' = <<>>
          /\ ~restartTimeoutRef /\ restartTimeoutRef']_vars

\* The engine ended by itself with text in the chunk: the text is committed,
\* the restart is armed, the session still listens and nothing was emitted.
C12_Witness ==
    /\ engine = "idle"
    /\ restartTimeoutRef
    /\ isListening
    /\ accumulatedTextRef # <<>>
    /\ currentChunkTextRef = <<>>
    /\ emitted = <<>>
    /\ ~stopRequested /\ ~deadlineFired /\ ~fatalSeen

\* C13: while the session is not active none of the three timers is armed;
\* and none is armed while the recorder is not listening, the only state in
\* which a later session can start, so no timer lives into a later session.
C13_NoTimerOutsideSession ==
    (~isSessionActiveRef \/ ~isListening) =>
        ~timerIntervalRef /\ ~maxDurationTimeoutRef /\ ~restartTimeoutRef

\* A session that had armed its restart timer was stopped: the session is
\* over and no timer is left.
C13_Witness ==
    /\ sessions >= 1
    /\ stopRequested
    /\ accumulatedTextRef # <<>>
    /\ engine = "idle"
    /\ ~isSessionActiveRef
    /\ ~timerIntervalRef /\ ~maxDurationTimeoutRef /\ ~restartTimeoutRef

\* C14: startLogic runs only when no session is in progress: the recorder is
\* not listening, the engine is idle and no timer is armed, so it resets no
\* text of a running session, re-arms no timer and starts no second engine; a
\* click while listening goes to stop.  (When the session flag is still set
\* from a start that threw, there is no text to reset.)
C14_NoStartWhileActive ==
    [][sessions' # sessions =>
          /\ ~isListening
          /\ engine = "idle"
          /\ ~timerIntervalRef /\ ~maxDurationTimeoutRef /\ ~restartTimeoutRef
          /\ (isSessionActiveRef =>
                accumulatedTextRef = <<>> /\ currentChunkTextRef = <<>>)]_vars

\* A click in a listening session with text in the chunk was routed to stop:
\* still the first session, the text kept, the engine stopping.
C14_Witness ==
    /\ sessions = 1
    /\ stopRequested /\ ~deadlineFired
    /\ isListening
    /\ engine = "stopping"
    /\ currentChunkTextRef # <<>>

RemoteCallFailed ==
    /\ lastOnline
    /\ Trim(lastText) # <<>>
    /\ lastReply.kind \in {"network", "http", "unparseable"}

\* C17: every failed remote call is reported as a rejected promise, never as
\* a fulfilled MatchResult.
C17_FailedCallRejects ==
    RemoteCallFailed => matchProductFromTranscript(build, lastText, lastReply).threw

\* C18: a call answered with HTTP 401 is rejected by the matcher and the
\* caller answers with the auth error and the API-key prompt.
C18_UnauthorizedPromptsForKey ==
    (lastOnline /\ Trim(lastText) # <<>>
       /\ lastReply.kind = "http" /\ lastReply.status = HttpUnauthorized) =>
        /\ matchProductFromTranscript(build, lastText, lastReply).threw
        /\ apiError = "invalid_key"
        /\ showApiKeyInput

(***************************************************************************)
(* Properties of the scorer                                                *)
(***************************************************************************)
\* the value CHINESE_NUMBERS gives a character, NullQty for other characters
NumberWordValue(c) ==
    IF \E k \in 1..Len(CHINESE_NUMBERS) : CHINESE_NUMBERS[k][1] = c
    THEN CHINESE_NUMBERS[CHOOSE k \in 1..Len(CHINESE_NUMBERS) :
                            CHINESE_NUMBERS[k][1] = c][2]
    ELSE NullQty

\* the value of the number-word that occurs earliest in the text
EarliestNumberWord(text) ==
    IF \E i \in 1..Len(text) : NumberWordValue(text[i]) # NullQty
    THEN NumberWordValue(text[CHOOSE i \in 1..Len(text) :
                                /\ NumberWordValue(text[i]) # NullQty
                                /\ \A j \in 1..(i - 1) :
                                      NumberWordValue(text[j]) = NullQty])
    ELSE NullQty

\* C19: for a transcript without a digit the detected quantity is the value
\* of the number-word that occurs earliest in it, and null when it has none.
C19_EarliestNumberWordWins ==
    (scorerCall.done /\ ArabicMatch(ToLowerCase(scorerCall.text)) = <<>>) =>
        scorerCall.result.detectedQuantity
            = EarliestNumberWord(ToLowerCase(scorerCall.text))

InCatalog(prods, product) == \E i \in 1..Len(prods) : prods[i] = product

\* C21: for the transcript "liang ge gou tao" (two dog covers) and a catalog
\* with the products named gou-tao-S and gou-tao-M, matchProductLocally gives
\* detectedQuantity 2, suggestions with both identifiers and no
\* matchedProductId.
C21_TwoSizesAreSuggested ==
    (scorerCall.done
       /\ scorerCall.text = <<"liang", "ge", "gou", "tao">>
       /\ InCatalog(scorerCall.prods, ProductGS)
       /\ InCatalog(scorerCall.prods, ProductGM)) =>
        /\ scorerCall.result.detectedQuantity = 2
        /\ SeqContains(scorerCall.result.suggestions, ProductGS.id)
        /\ SeqContains(scorerCall.result.suggestions, ProductGM.id)
        /\ scorerCall.result.matchedProductId = NullId

\* The call on that transcript and the catalog of the two sizes returned.
C21_Witness ==
    /\ scorerCall.done
    /\ scorerCall.text = <<"liang", "ge", "gou", "tao">>
    /\ scorerCall.prods = <<ProductGS, ProductGM>>
    /\ scorerCall.result.suggestions = <<ProductGS.id, ProductGM.id>>

\* C22: for the catalog of the one product named hu-xi (knee pad) and the
\* transcript "hu xi_w" (its near-homophone), the product scores below 40 and
\* matchProductLocally returns no matchedProductId.
C22_HomophoneIsNoMatch ==
    (scorerCall.done
       /\ scorerCall.text = <<"hu", "xi_w">>
       /\ scorerCall.prods = <<ProductHX>>) =>
        /\ ProductScore(ToLowerCase(scorerCall.text), ProductHX) < ConfidentThreshold
        /\ scorerCall.result.matchedProductId = NullId

\* That call returned, with nothing to suggest.
C22_Witness ==
    /\ scorerCall.done
    /\ scorerCall.text = <<"hu", "xi_w">>
    /\ scorerCall.prods = <<ProductHX>>
    /\ scorerCall.result.suggestions = <<>>

\* C23: when recognition.start() throws inside startLogic no session is
\* started: after that call isSessionActive and isListening are false and no
\* timer is armed, and an onend that follows the failed start neither arms the
\* restart timer nor emits a transcript.
C23_FailedStartStartsNoSession ==
    [][/\ (StartLogic /\ error' = "start_failed") =>
             /\ ~isSessionActiveRef'
             /\ ~isListening'
             /\ ~timerIntervalRef'
             /\ ~maxDurationTimeoutRef'
             /\ ~restartTimeoutRef'
       /\ (OnEnd /\ error = "start_failed") =>
             /\ ~restartTimeoutRef'
             /\ emitted' = emitted]_vars

\* The quantity a resolution prefills according to the matches it used: the
\* detectedQuantity of the last one when that is a well-formed MatchResult
\* with a quantity, and 1 otherwise.
PrefilledQuantity(matches) ==
    IF /\ matches # <<>>
       /\ matches[Len(matches)].shape = "object"
       /\ Truthy(matches[Len(matches)].detectedQuantity)
    THEN matches[Len(matches)].detectedQuantity
    ELSE 1

\* C24: every resolution that leaves the recording step leaves as quantity the
\* detectedQuantity of the match it used, or 1 when it used none or the match
\* has none; a quantity set by an earlier resolution is never kept, also when
\* the remote call of the later resolution fails.
C24_QuantityIsNeverCarriedOver ==
    [][((RemoteSettlesA \/ RemoteSettlesB) /\ step' # "RECORD") =>
           quantity' = PrefilledQuantity(usedMatches')]_vars

\* A handleTranscript call runs to its end: the remote call settles, or the
\* call took a branch that does not await.
HandleTranscriptCompletes ==
    \/ RemoteSettlesA
    \/ RemoteSettlesB
    \/ HandleTranscriptA /\ inflight' = <<>>
    \/ HandleTranscriptB /\ step' = "SELECT_PRODUCT"

\* What the modal gives the user to act on: candidates, a product selected
\* for confirmation, or the API-key message.
SomethingToActOn ==
    \/ candidates # <<>>
    \/ step = "CONFIRM_QTY" /\ selectedProduct # NullProduct
    \/ apiError # "none"

\* C25: on a non-empty catalog, whatever the remote reply, a completed
\* handleTranscript leaves a non-empty candidate list, a pre-selected product
\* or an error message the user can act on.
C25_NeverAnEmptyCandidateList ==
    [][(products # <<>> /\ HandleTranscriptCompletes) => SomethingToActOn']_vars

\* no identifier occurs twice in the sequence
NoDuplicates(ids) == \A i, j \in 1..Len(ids) : ids[i] = ids[j] => i = j

\* C26: the MatchResult that matchProductFromTranscript hands to the resolver
\* for a JSON reply has no identifier twice in suggestions and, when
\* matchedProductId is not null, has it as the first suggestion.
C26_SuggestionsAreNormalized ==
    (lastOnline /\ Trim(lastText) # <<>> /\ lastReply.kind = "json") =>
        LET o == matchProductFromTranscript(build, lastText, lastReply) IN
        (~o.threw /\ o.result.shape = "object") =>
            /\ NoDuplicates(o.result.suggestions)
            /\ o.result.matchedProductId # NullId =>
                 /\ o.result.suggestions # <<>>
                 /\ o.result.suggestions[1] = o.result.matchedProductId

\* the identifiers a MatchResult names: matchedProductId and the suggestions
NamedIds(match) ==
    (IF match.matchedProductId # NullId THEN {match.matchedProductId} ELSE {})
    \cup {match.suggestions[i] : i \in 1..Len(match.suggestions)}

\* C27: the candidate list that processMatchResult of update-manifest.js builds
\* from a MatchResult holds each catalog product at most once, holds only
\* catalog products that the result names (the whole catalog when it names
\* none of the catalog), and starts with the product named by matchedProductId
\* whenever the catalog has that product.
C27_CandidatesOfAMatch ==
    [][(RemoteSettlesB /\ usedMatches' # <<>> /\ usedMatches'[1].shape = "object") =>
          /\ NoDuplicates(candidates')
          /\ IF \E i \in 1..Len(products) : products[i].id \in NamedIds(usedMatches'[1])
             THEN \A i \in 1..Len(candidates') :
                     /\ InCatalog(products, candidates'[i])
                     /\ candidates'[i].id \in NamedIds(usedMatches'[1])
             ELSE candidates' = products
          /\ FindProduct(products, usedMatches'[1].matchedProductId) # NullProduct =>
                 /\ candidates' # <<>>
                 /\ candidates'[1].id = usedMatches'[1].matchedProductId]_vars

\* A reply naming C1 as the match and G1 before it in the suggestions was
\* processed on the catalog of three: the candidates are C1, then G1.
C27_Witness ==
    /\ build = "B"
    /\ products = <<ProductGS, ProductGM, ProductHX>>
    /\ lastReply.kind = "json"
    /\ usedMatches = <<lastReply.json>>
    /\ lastReply.json.matchedProductId = ProductHX.id
    /\ candidates = <<ProductHX, ProductGS>>

\* the position of the first occurrence of an identifier in a sequence
FirstIndex(ids, id) ==
    CHOOSE i \in 1..Len(ids) : ids[i] = id /\ \A j \in 1..(i - 1) : ids[j] # id

\* C28: after a resolution that used a well-formed MatchResult, candidates
\* that the suggestions name are listed in the order of the suggestions, best
\* first (the product named by matchedProductId apart, which may lead).
C28_CandidatesInRankingOrder ==
    [][((RemoteSettlesA \/ RemoteSettlesB)
          /\ usedMatches' # <<>> /\ usedMatches'[Len(usedMatches')].shape = "object") =>
          LET match == usedMatches'[Len(usedMatches')] IN
          \A i, j \in 1..Len(candidates') :
              (/\ i < j
               /\ SeqContains(match.suggestions, candidates'[i].id)
               /\ SeqContains(match.suggestions, candidates'[j].id)
               /\ candidates'[i].id # match.matchedProductId) =>
                  FirstIndex(match.suggestions, candidates'[i].id)
                      < FirstIndex(match.suggestions, candidates'[j].id)]_vars

\* C29: while a resolution is in flight (isProcessing is true) no further
\* handleTranscript invocation takes effect, so resolutions never overlap and
\* an older one cannot overwrite a newer one.
C29_ResolutionsNeverOverlap ==
    [][((HandleTranscriptA \/ HandleTranscriptB)
          /\ <<transcript, step, inflight>>' # <<transcript, step, inflight>>) =>
             (~isProcessing /\ inflight = <<>>)]_vars

\* C30: the API-key error appears only after the remote endpoint answered with
\* HTTP status 401; no other failure (another status whatever its body, a
\* network failure, an unparseable reply) makes it appear.
C30_AuthErrorOnlyFor401 ==
    [][((RemoteSettlesA \/ RemoteSettlesB)
          /\ apiError = "none" /\ apiError' = "invalid_key") =>
             (lastReply'.kind = "http" /\ lastReply'.status = HttpUnauthorized)]_vars

\* the value, read in base ten, of the leftmost maximal run of ASCII digits of
\* a text that has a digit
LeftmostDigitRunValue(text) ==
    LET first == CHOOSE i \in 1..Len(text) :
                    /\ text[i] \in Digits
                    /\ \A j \in 1..(i - 1) : text[j] \notin Digits
        last  == CHOOSE j \in first..Len(text) :
                    /\ \A k \in first..j : text[k] \in Digits
                    /\ j = Len(text) \/ text[j + 1] \notin Digits
        value[k \in first..last] ==
            IF k = first THEN DigitValue(text[k])
            ELSE value[k - 1] * 10 + DigitValue(text[k])
    IN  value[last]

\* C31: when the transcript has an ASCII digit, the detected quantity is the
\* value of its leftmost maximal run of digits, whatever number-words it has
\* and whether or not the digits belong to a spoken product identifier.
C31_DigitsWinOverNumberWords ==
    (scorerCall.done /\ \E i \in 1..Len(scorerCall.text) : scorerCall.text[i] \in Digits) =>
        scorerCall.result.detectedQuantity = LeftmostDigitRunValue(scorerCall.text)

\* "G1 san ge" was scored on a catalog that has G1: the quantity is the 1 of
\* the identifier and not the 3 of the number-word.
C31_Witness ==
    /\ scorerCall.done
    /\ scorerCall.text = <<"G", "1", "san", "ge">>
    /\ InCatalog(scorerCall.prods, ProductGS)
    /\ scorerCall.result.detectedQuantity = 1
    /\ scorerCall.result.matchedProductId = ProductGS.id

\* C32: the detectedQuantity of every MatchResult of matchProductLocally is
\* null or an integer of at least 1.
C32_QuantityIsPositive ==
    scorerCall.done =>
        \/ scorerCall.result.detectedQuantity = NullQty
        \/ scorerCall.result.detectedQuantity >= 1

\* the index of the top-ranked product of a non-empty catalog: a highest
\* score, and the first in the catalog that has it
TopRanked(text, prods) ==
    CHOOSE i \in 1..Len(prods) :
        /\ \A j \in 1..Len(prods) :
              ProductScore(ToLowerCase(text), prods[j])
                  <= ProductScore(ToLowerCase(text), prods[i])
        /\ \A j \in 1..(i - 1) :
              ProductScore(ToLowerCase(text), prods[j])
                  < ProductScore(ToLowerCase(text), prods[i])

\* the identifier or the whole name of the product occurs in the transcript,
\* letter case apart
OccursLiterally(text, product) ==
    \/ Includes(ToLowerCase(text), ToLowerCase(product.id))
    \/ Includes(ToLowerCase(text), ToLowerCase(product.name))

\* C33: matchedProductId is the identifier of the top-ranked product exactly
\* when that product scores at least 40, and null otherwise; a match is only
\* made for a product whose identifier or full name occurs in the transcript.
C33_MatchNeedsALiteralOccurrence ==
    scorerCall.done =>
        IF scorerCall.prods = <<>>
        THEN scorerCall.result.matchedProductId = NullId
        ELSE LET top == scorerCall.prods[TopRanked(scorerCall.text, scorerCall.prods)] IN
             /\ scorerCall.result.matchedProductId =
                   IF ProductScore(ToLowerCase(scorerCall.text), top) >= ConfidentThreshold
                   THEN top.id ELSE NullId
             /\ scorerCall.result.matchedProductId # NullId =>
                   OccursLiterally(scorerCall.text, top)

\* "gou tao" was scored against gou-tao-S: both weak signals apply (15), the
\* product is suggested and not matched.
C33_Witness ==
    /\ scorerCall.done
    /\ scorerCall.text = <<"gou", "tao">>
    /\ scorerCall.prods = <<ProductGS>>
    /\ ProductScore(ToLowerCase(scorerCall.text), ProductGS)
          = PartialNameScore + BaseSegmentScore
    /\ scorerCall.result.suggestions = <<ProductGS.id>>
    /\ scorerCall.result.matchedProductId = NullId

\* the parts of a product's score given for the identifier, for the whole
\* name and for the base segment
IdBonus(normalizedText, product) ==
    IF Includes(normalizedText, ToLowerCase(product.id)) THEN IdMatchScore ELSE 0

NameBonus(normalizedText, product) ==
    IF Includes(normalizedText, ToLowerCase(product.name)) THEN NameMatchScore ELSE 0

BaseBonus(normalizedText, product) ==
    IF \/ StartsWith(ToLowerCase(product.name), normalizedText)
       \/ Includes(normalizedText, SplitFirstSegment(ToLowerCase(product.name)))
    THEN BaseSegmentScore ELSE 0

\* what the score holds beside the identifier, name and base-segment parts
PartialBonus(normalizedText, product) ==
    ProductScore(normalizedText, product)
        - IdBonus(normalizedText, product)
        - NameBonus(normalizedText, product)
        - BaseBonus(normalizedText, product)

\* C34: the score of a product whose name has at least two characters holds
\* the +5 exactly when the first two characters of the case-folded name occur
\* in the case-folded transcript.
C34_PartialBonusForAnyLength ==
    scorerCall.done =>
        \A i \in 1..Len(scorerCall.prods) :
            Len(scorerCall.prods[i].name) >= 2 =>
                (PartialBonus(ToLowerCase(scorerCall.text), scorerCall.prods[i])
                     = PartialNameScore
                 <=> Includes(ToLowerCase(scorerCall.text),
                              SubSeq(ToLowerCase(scorerCall.prods[i].name), 1, 2)))

\* C35: the score of a product holds the +10 exactly when the case-folded
\* name is a prefix of the case-folded transcript or the transcript contains
\* the name's base segment; a transcript that is a proper prefix of the name,
\* or empty, and has not the base segment earns none.
C35_BaseBonusForNamePrefix ==
    scorerCall.done =>
        \A i \in 1..Len(scorerCall.prods) :
            LET pName == ToLowerCase(scorerCall.prods[i].name)
                normalizedText == ToLowerCase(scorerCall.text)
            IN  BaseBonus(normalizedText, scorerCall.prods[i]) = BaseSegmentScore
                <=> (\/ StartsWith(normalizedText, pName)
                     \/ Includes(normalizedText, SplitFirstSegment(pName)))

\* C36: for the product gou-tao-S, whose name is a base followed by an
\* uppercase size marker, every transcript that contains the base gou-tao
\* earns the +10 of the base segment.
C36_BaseIsThePartBeforeTheMarker ==
    (scorerCall.done
       /\ InCatalog(scorerCall.prods, ProductGS)
       /\ Includes(ToLowerCase(scorerCall.text), <<"gou", "tao">>)) =>
        BaseBonus(ToLowerCase(scorerCall.text), ProductGS) = BaseSegmentScore

\* the position in the catalog of the product with an identifier
CatalogIndex(prods, id) == CHOOSE k \in 1..Len(prods) : prods[k].id = id

\* the score of the product with an identifier
ScoreOfId(text, prods, id) ==
    ProductScore(ToLowerCase(text), prods[CatalogIndex(prods, id)])

\* C37: the suggestions are in the order of non-increasing score, and
\* products of equal score are in the order of the catalog.
C37_SuggestionsSortedStably ==
    scorerCall.done =>
        LET ids == scorerCall.result.suggestions IN
        \A i, j \in 1..Len(ids) :
            i < j =>
                /\ ScoreOfId(scorerCall.text, scorerCall.prods, ids[i])
                      >= ScoreOfId(scorerCall.text, scorerCall.prods, ids[j])
                /\ ScoreOfId(scorerCall.text, scorerCall.prods, ids[i])
                      = ScoreOfId(scorerCall.text, scorerCall.prods, ids[j])
                   => CatalogIndex(scorerCall.prods, ids[i])
                          < CatalogIndex(scorerCall.prods, ids[j])

\* "gou tao S" was scored on the large catalog: G1, third in the catalog,
\* leads with its name match, and the sizes that tie at 5 follow in the order
\* of the catalog.
C37_Witness ==
    /\ scorerCall.done
    /\ scorerCall.text = <<"gou", "tao", "S">>
    /\ scorerCall.prods = LargeCatalog
    /\ scorerCall.result.suggestions =
          <<ProductGS.id, ProductGM.id, ProductGL.id, ProductGX.id, ProductGA.id>>

\* the catalog positions of the products with a score above 0
PositiveScored(text, prods) ==
    {k \in 1..Len(prods) : ProductScore(ToLowerCase(text), prods[k]) > 0}

\* C38: the suggestions name only products with a score above 0, no product
\* twice and at most 5; they are as many as min(5, n) for the n products with
\* a score above 0, and every such product left out ranks behind every
\* suggestion (a lower score, or the same score and later in the catalog).
C38_SuggestionsAreTheTopFive ==
    scorerCall.done =>
        LET ids == scorerCall.result.suggestions
            positive == PositiveScored(scorerCall.text, scorerCall.prods)
            n == Cardinality(positive)
        IN  /\ \A i \in 1..Len(ids) :
                  CatalogIndex(scorerCall.prods, ids[i]) \in positive
            /\ NoDuplicates(ids)
            /\ Len(ids) <= 5
            /\ Len(ids) = IF n < 5 THEN n ELSE 5
            /\ \A k \in positive :
                  ~SeqContains(ids, scorerCall.prods[k].id) =>
                      \A i \in 1..Len(ids) :
                          \/ ScoreOfId(scorerCall.text, scorerCall.prods, ids[i])
                                > ProductScore(ToLowerCase(scorerCall.text),
                                               scorerCall.prods[k])
                          \/ /\ ScoreOfId(scorerCall.text, scorerCall.prods, ids[i])
                                   = ProductScore(ToLowerCase(scorerCall.text),
                                                  scorerCall.prods[k])
                             /\ CatalogIndex(scorerCall.prods, ids[i]) < k

\* "gou tao" was scored on the large catalog: six sizes score above 0, five
\* are suggested, and the last of the catalog is left out.
C38_Witness ==
    /\ scorerCall.done
    /\ scorerCall.text = <<"gou", "tao">>
    /\ scorerCall.prods = LargeCatalog
    /\ Cardinality(PositiveScored(scorerCall.text, scorerCall.prods)) = 6
    /\ Len(scorerCall.result.suggestions) = 5
    /\ ~SeqContains(scorerCall.result.suggestions, ProductGB.id)

====
